---- MODULE Spec2Model ----
(***************************************************************************)
(* StudentModulePerCourseTask of edx/analytics/tasks/database_exports.py:  *)
(* a raw dump of courseware_studentmodule is split into one tab separated  *)
(* file per course_id, and a job_success marker tells that the whole split *)
(* finished.                                                               *)
(*                                                                         *)
(* Text is a sequence of symbols.  A symbol is a one-character string,     *)
(* except that a schema field name or a fixed piece of the file name       *)
(* template is kept as one symbol, and that "#" abbreviates a run of CHUNK *)
(* ordinary characters (a large state blob).                               *)
(***************************************************************************)
EXTENDS Integers, Sequences, FiniteSets, TLC

VARIABLES
    output_root,    \* task parameter: where the split files go
    output_suffix,  \* task parameter: <<>> is None, <<s>> is the string s
    fail_fast,      \* orchestrator policy for a line that does not parse
    input,          \* the lines of the dump
    next_line,      \* index of the next line handed to the mapper
    groups,         \* shuffle: key -> the rows emitted with that key
    skipped,        \* indexes of the lines skipped and logged
    phase,          \* "map", "reduce", "done"
    error,          \* "none", or what ended the run before it was done
    writer,         \* key -> [st, pos, path]: the reducer invocation for the key
    fs,             \* the output storage: path -> content
    probe           \* direct applications of the pure functions

vars == <<output_root, output_suffix, fail_fast, input, next_line, groups,
          skipped, phase, error, writer, fs, probe>>

-----------------------------------------------------------------------------
(* Bounds *)

MaxLines == 2
MaxKeyLen == 2
MaxRows == 2

-----------------------------------------------------------------------------
(* Text helpers *)

RECURSIVE Join(_, _)
Join(texts, sep) ==
    IF texts = <<>> THEN <<>>
    ELSE IF Len(texts) = 1 THEN texts[1]
    ELSE texts[1] \o sep \o Join(Tail(texts), sep)

RECURSIVE Concat(_)
Concat(texts) ==
    IF texts = <<>> THEN <<>> ELSE Head(texts) \o Concat(Tail(texts))

RECURSIVE Split(_, _)
Split(text, sep) ==
    IF \A i \in 1..Len(text) : text[i] # sep THEN <<text>>
    ELSE LET i == CHOOSE j \in 1..Len(text) :
                    text[j] = sep /\ \A h \in 1..(j - 1) : text[h] # sep
         IN  <<SubSeq(text, 1, i - 1)>> \o Split(SubSeq(text, i + 1, Len(text)), sep)

IsPrefix(p, t) == Len(p) <= Len(t) /\ SubSeq(t, 1, Len(p)) = p

SeqsUpTo(S, n) == UNION {[1..m -> S] : m \in 0..n}

-----------------------------------------------------------------------------
(* Constants of the module *)

CHUNK == 2 * 1024 * 1024

FIELD_SIZE_LIMIT == 4 * 1024 * 1024

STUDENT_MODULE_FIELDS ==
    <<"id", "module_type", "module_id", "student_id", "state", "grade",
      "created", "modified", "max_grade", "done", "course_id">>

MARKER_FILENAME == <<"job_success">>

-----------------------------------------------------------------------------
(* Record codec (csv_util) *)

Weight(sym) == IF sym = "#" THEN CHUNK ELSE 1

RECURSIVE Size(_)
Size(text) == IF text = <<>> THEN 0 ELSE Weight(Head(text)) + Size(Tail(text))

\* parse_line(line, dialect='mysqldump'): the fields between the commas, or
\* an error when one field is larger than the field size limit.
parse_line(line) ==
    LET fields == Split(line, ",")
    IN  IF \E i \in 1..Len(fields) : Size(fields[i]) > FIELD_SIZE_LIMIT
        THEN [err |-> "FieldTooLarge", values |-> <<>>]
        ELSE [err |-> "none", values |-> fields]

\* to_csv_line(record, dialect='mysqlpipe'): the fields joined by tabs.
to_csv_line(values) == Join(values, <<"\t">>)

-----------------------------------------------------------------------------
(* StudentModulePerCourseTask *)

FieldIndex(name) ==
    CHOOSE i \in 1..Len(STUDENT_MODULE_FIELDS) : STUDENT_MODULE_FIELDS[i] = name

\* StudentModuleRecord(*values): a namedtuple takes exactly one value per field.
StudentModuleRecord(values) ==
    IF Len(values) = Len(STUDENT_MODULE_FIELDS)
    THEN [err |-> "none", record |-> values]
    ELSE [err |-> "MalformedRecord", record |-> <<>>]

\* A faulty variant of mapper: a plain list with course_id = values[-1], no arity check.
mapper_last_value(line) ==
    LET parsed == parse_line(line)
    IN  IF parsed.err # "none" THEN [err |-> parsed.err, out |-> <<>>]
        ELSE [err |-> "none",
              out |-> <<[key |-> parsed.values[Len(parsed.values)],
                         value |-> to_csv_line(parsed.values)]>>]

\* mapper(line): the pairs it yields, or the exception it raises.
mapper(line) ==
    LET parsed == parse_line(line)
    IN  IF parsed.err # "none" THEN [err |-> parsed.err, out |-> <<>>]
        ELSE LET made == StudentModuleRecord(parsed.values)
             IN  IF made.err # "none" THEN [err |-> made.err, out |-> <<>>]
                 ELSE [err |-> "none",
                       out |-> <<[key |-> made.record[FieldIndex("course_id")],
                                  value |-> to_csv_line(made.record)]>>]

header == Join([i \in 1..Len(STUDENT_MODULE_FIELDS) |-> <<STUDENT_MODULE_FIELDS[i]>>],
               <<"\t">>)

\* A faulty variant of multi_output_reducer: the newline after the header is forgotten.
multi_output_reducer_no_newline(key, rows) ==
    <<header>> \o Concat([i \in 1..Len(rows) |-> <<rows[i], <<"\n">>>>])

\* multi_output_reducer(_key, rows, output_file): the write calls it makes on
\* output_file, in order.
multi_output_reducer(key, rows) ==
    <<header, <<"\n">>>>
        \o Concat([i \in 1..Len(rows) |-> <<rows[i], <<"\n">>>>])

\* The safe set of a file name: letters, digits, underscore, period, hyphen.
SafeChars == {"a", "b", "c", "A", "B", "7", "_", ".", "-"}

\* A faulty variant of get_filename_safe_course_id: only the first unsafe character is
\* replaced (a substitution with count=1).
RECURSIVE get_filename_safe_course_id_first(_, _)
get_filename_safe_course_id_first(course_id, replacement_char) ==
    IF course_id = <<>> THEN <<>>
    ELSE IF Head(course_id) \in SafeChars
         THEN <<Head(course_id)>>
                  \o get_filename_safe_course_id_first(Tail(course_id), replacement_char)
         ELSE replacement_char \o Tail(course_id)

\* opaque_key_util.get_filename_safe_course_id(course_id, replacement_char)
RECURSIVE get_filename_safe_course_id(_, _)
get_filename_safe_course_id(course_id, replacement_char) ==
    IF course_id = <<>> THEN <<>>
    ELSE (IF Head(course_id) \in SafeChars THEN <<Head(course_id)>>
          ELSE replacement_char)
         \o get_filename_safe_course_id(Tail(course_id), replacement_char)

\* A faulty variant of sanitize: the substitute argument is left out and the helper's
\* underscore is used.
sanitize_underscore(course_id) == get_filename_safe_course_id(course_id, <<"_">>)

\* The conversion output_path_for_key applies to the key.
sanitize(course_id) == get_filename_safe_course_id(course_id, <<"-">>)

url_path_join(root, name) == root \o <<"/">> \o name

Truthy(opt) == opt # <<>> /\ opt[1] # <<>>

\* A faulty variant of output_path_for_key: the suffix is tested with "is not None".
output_path_for_key_not_none(course_id) ==
    LET suffix == IF output_suffix # <<>> THEN output_suffix[1] \o <<"-">>
                  ELSE <<>>
        filename == sanitize(course_id) \o <<"-courseware_studentmodule-">>
                        \o suffix \o <<"analytics.sql">>
    IN  url_path_join(output_root, filename)

output_path_for_key(course_id) ==
    LET suffix == IF Truthy(output_suffix) THEN output_suffix[1] \o <<"-">>
                  ELSE <<>>
        filename == sanitize(course_id) \o <<"-courseware_studentmodule-">>
                        \o suffix \o <<"analytics.sql">>
    IN  url_path_join(output_root, filename)

\* A faulty variant of output: the output root itself, as StudentModuleSummary.output.
output_is_root == output_root

\* output(): the target whose existence tells that the task is complete.
output == url_path_join(output_root, MARKER_FILENAME)

\* get_target_from_url(url).exists(): a file, or a directory that holds one.
Exists(url) ==
    \/ url \in DOMAIN fs
    \/ \E p \in DOMAIN fs : IsPrefix(url \o <<"/">>, p)

-----------------------------------------------------------------------------
(* The inputs of the model *)

OutputRoots == {<<"out">>, <<"s3:", "/", "/", "b">>}

\* None, the empty string, a suffix.
OutputSuffixes == {<<>>, <<<<>>>>, <<<<"x">>>>}

\* Course ids seen in a run: course:A and course-A differ by one character.
CourseIds == {<<"c", ":", "A">>, <<"c", "-", "A">>, <<"c", "B">>}

\* A line of the dump: eleven comma separated fields, the last the course id.
DumpLine(state, course_id) ==
    Join(<<<<"1">>, <<"p">>, <<"m">>, <<"s">>, state, <<"0">>, <<>>, <<>>,
           <<"0">>, <<"0">>, course_id>>, <<",">>)

\* The state blob of c:A and c-A is {}; that of cB is exactly 4 MB.
GoodLines ==
    {DumpLine(<<"{", "}">>, <<"c", ":", "A">>),
     DumpLine(<<"{", "}">>, <<"c", "-", "A">>),
     DumpLine(<<"#", "#">>, <<"c", "B">>)}

\* Ten fields, twelve fields (a comma inside the blob), a blob of 6 MB.
ShortLine == Join(<<<<"1">>, <<"p">>, <<"m">>, <<"s">>, <<"{", "}">>, <<"0">>,
                    <<>>, <<>>, <<"0">>, <<"0">>>>, <<",">>)
CommaLine == DumpLine(<<"{", ",", "}">>, <<"c", "B">>)
HugeLine == DumpLine(<<"#", "#", "#">>, <<"c", "B">>)

BadLines == {ShortLine, CommaLine, HugeLine}

NoProbe == [course_id |-> <<>>, other_id |-> <<>>, safe |-> <<>>,
            twice |-> <<>>, path |-> <<>>, other_path |-> <<>>]

-----------------------------------------------------------------------------
(* The run of the job: map every line, group by key, one reducer per key,  *)
(* then the marker.                                                        *)

Init ==
    /\ output_root = <<"out">>
    /\ output_suffix \in OutputSuffixes
    /\ fail_fast \in BOOLEAN
    /\ input \in SeqsUpTo(GoodLines \cup BadLines, MaxLines)
    /\ next_line = 1
    /\ groups = <<>>
    /\ skipped = {}
    /\ phase = "map"
    /\ error = "none"
    /\ error = "none"
    /\ writer = <<>>
    /\ fs = <<>>
    /\ probe = NoProbe

Keys == DOMAIN groups

\* The framework hands the line to mapper and keeps the pair it yields.
MapLine ==
    /\ phase = "map"
    /\ error = "none"
    /\ next_line <= Len(input)
    /\ LET m == mapper(input[next_line])
       IN  /\ m.err = "none"
           /\ LET k == m.out[1].key
                  v == m.out[1].value
              IN  /\ groups' = [j \in Keys \cup {k} |->
                                   IF j = k
                                   THEN (IF k \in Keys THEN groups[k] ELSE <<>>) \o <<v>>
                                   ELSE groups[j]]
                  /\ writer' = [j \in Keys \cup {k} |->
                                   IF j \in Keys THEN writer[j]
                                   ELSE [st |-> "idle", pos |-> 0, path |-> <<>>]]
    /\ next_line' = next_line + 1
    /\ UNCHANGED <<output_root, output_suffix, fail_fast, input, skipped, phase,
                   error, fs, probe>>

\* mapper raised and the policy is skip-and-log.
SkipLine ==
    /\ phase = "map"
    /\ error = "none"
    /\ next_line <= Len(input)
    /\ mapper(input[next_line]).err # "none"
    /\ ~fail_fast
    /\ skipped' = skipped \cup {next_line}
    /\ next_line' = next_line + 1
    /\ UNCHANGED <<output_root, output_suffix, fail_fast, input, groups, phase,
                   error, writer, fs, probe>>

\* mapper raised and the policy is fail-fast.
AbortOnLine ==
    /\ phase = "map"
    /\ error = "none"
    /\ next_line <= Len(input)
    /\ mapper(input[next_line]).err # "none"
    /\ fail_fast
    /\ error' = mapper(input[next_line]).err
    /\ UNCHANGED <<output_root, output_suffix, fail_fast, input, next_line,
                   groups, skipped, phase, writer, fs, probe>>

\* Every line is mapped: the rows are grouped and the reducers may start.
Shuffle ==
    /\ phase = "map"
    /\ error = "none"
    /\ next_line > Len(input)
    /\ phase' = "reduce"
    /\ UNCHANGED <<output_root, output_suffix, fail_fast, input, next_line,
                   groups, skipped, error, writer, fs, probe>>

\* reducer(key, values): open the target of output_path_for_key(key) for writing.
OpenOutput(k) ==
    /\ phase = "reduce"
    /\ error = "none"
    /\ writer[k].st = "idle"
    /\ LET path == output_path_for_key(k)
       IN  /\ writer' = [writer EXCEPT ![k] = [st |-> "open", pos |-> 0, path |-> path]]
           /\ fs' = [p \in DOMAIN fs \cup {path} |-> IF p = path THEN <<>> ELSE fs[p]]
    /\ UNCHANGED <<output_root, output_suffix, fail_fast, input, next_line,
                   groups, skipped, phase, error, probe>>

\* The next output_file.write of multi_output_reducer.
WriteOutput(k) ==
    /\ phase = "reduce"
    /\ error = "none"
    /\ writer[k].st = "open"
    /\ LET writes == multi_output_reducer(k, groups[k])
           path == writer[k].path
       IN  /\ writer[k].pos < Len(writes)
           /\ fs' = [fs EXCEPT ![path] = @ \o writes[writer[k].pos + 1]]
           /\ writer' = [writer EXCEPT ![k].pos = @ + 1]
    /\ UNCHANGED <<output_root, output_suffix, fail_fast, input, next_line,
                   groups, skipped, phase, error, probe>>

\* multi_output_reducer returned: the with-block closes output_file.
CloseOutput(k) ==
    /\ phase = "reduce"
    /\ error = "none"
    /\ writer[k].st = "open"
    /\ writer[k].pos = Len(multi_output_reducer(k, groups[k]))
    /\ writer' = [writer EXCEPT ![k].st = "closed"]
    /\ UNCHANGED <<output_root, output_suffix, fail_fast, input, next_line,
                   groups, skipped, phase, error, fs, probe>>

\* An I/O error on open, write or close: the partition and the job fail.
FailOutput(k) ==
    /\ phase = "reduce"
    /\ error = "none"
    /\ writer[k].st \in {"idle", "open"}
    /\ writer' = [writer EXCEPT ![k].st = "failed"]
    /\ error' = "PartitionWriteFailure"
    /\ UNCHANGED <<output_root, output_suffix, fail_fast, input, next_line,
                   groups, skipped, phase, fs, probe>>

AllPartitionsWritten ==
    /\ phase \in {"reduce", "done"}
    /\ \A k \in Keys : writer[k].st = "closed"

\* The job succeeded: the target of output() is written.
MarkSuccess ==
    /\ phase = "reduce"
    /\ error = "none"
    /\ \A k \in Keys : writer[k].st = "closed"
    /\ fs' = [p \in DOMAIN fs \cup {output} |-> IF p = output THEN <<>> ELSE fs[p]]
    /\ phase' = "done"
    /\ UNCHANGED <<output_root, output_suffix, fail_fast, input, next_line,
                   groups, skipped, error, writer, probe>>

\* The job is cancelled before the barrier: some partition is not yet written.
Cancel ==
    /\ phase \in {"map", "reduce"}
    /\ error = "none"
    /\ ~AllPartitionsWritten
    /\ error' = "Cancelled"
    /\ UNCHANGED <<output_root, output_suffix, fail_fast, input, next_line,
                   groups, skipped, phase, writer, fs, probe>>

Next ==
    \/ MapLine
    \/ SkipLine
    \/ AbortOnLine
    \/ Shuffle
    \/ \E k \in Keys : OpenOutput(k)
    \/ \E k \in Keys : WriteOutput(k)
    \/ \E k \in Keys : CloseOutput(k)
    \/ \E k \in Keys : FailOutput(k)
    \/ MarkSuccess
    \/ Cancel

Spec == Init /\ [][Next]_vars

-----------------------------------------------------------------------------
(* What a reader of the output directory and of the job's log sees *)

RunEnded == phase = "done" \/ error # "none"

MarkerExists == Exists(output)

\* The partition files: everything under the output root but the marker.
PartitionFiles == {p \in DOMAIN fs : p # url_path_join(output_root, MARKER_FILENAME)}

\* The lines of a file: the text before each record separator.
FileLines(content) ==
    LET parts == Split(content, "\n")
    IN  SubSeq(parts, 1, Len(parts) - 1)

EndsWithSeparator(content) == content # <<>> /\ content[Len(content)] = "\n"

\* The header line as the documentation gives it: the eleven field names, tab separated.
HeaderLine ==
    <<"id", "\t", "module_type", "\t", "module_id", "\t", "student_id", "\t",
      "state", "\t", "grade", "\t", "created", "\t", "modified", "\t",
      "max_grade", "\t", "done", "\t", "course_id">>

\* The row of a well-formed line: the line with a tab for each comma.
RowOf(line) == [i \in 1..Len(line) |-> IF line[i] = "," THEN "\t" ELSE line[i]]

\* The course id of a well-formed line: what follows its last comma.
CourseIdOf(line) ==
    LET last == CHOOSE i \in 1..Len(line) :
                    line[i] = "," /\ \A j \in (i + 1)..Len(line) : line[j] # ","
    IN  SubSeq(line, last + 1, Len(line))

WellFormed(n) == {i \in 1..n : input[i] \in GoodLines}
Malformed(n) == {i \in 1..n : input[i] \in BadLines}
LinesOfKey(k, n) == {i \in WellFormed(n) : CourseIdOf(input[i]) = k}
InputKeys == {CourseIdOf(input[i]) : i \in WellFormed(Len(input))}

SameRows(rows, k) ==
    /\ Len(rows) = Cardinality(LinesOfKey(k, Len(input)))
    /\ \A i \in 1..Len(rows) :
           \E j \in LinesOfKey(k, Len(input)) : rows[i] = RowOf(input[j])

C2_MarkerAfterBarrier ==
    /\ MarkerExists =>
          /\ phase = "done"
          /\ error = "none"
          /\ \A k \in Keys :
                /\ writer[k].st = "closed"
                /\ writer[k].pos = 2 + 2 * Len(groups[k])
                /\ writer[k].path \in DOMAIN fs
                /\ EndsWithSeparator(fs[writer[k].path])
    /\ error # "none" => ~MarkerExists

\* Two partitions were written by interleaved writers and the marker is there.
C2_Witness ==
    /\ MarkerExists
    /\ Cardinality(PartitionFiles) >= 2
    /\ \A k \in Keys : writer[k].st = "closed"

\* C3: a successful run over N lines with K distinct keys leaves K partition
\* files, each starting with the header line, with N minus malformed rows in all.
C3_OneFilePerKey ==
    (phase = "done" /\ error = "none") =>
        /\ Cardinality(PartitionFiles) = Cardinality(InputKeys)
        /\ \A p \in PartitionFiles :
              /\ EndsWithSeparator(fs[p])
              /\ FileLines(fs[p])[1] = HeaderLine
        /\ LET rows == [p \in PartitionFiles |-> Len(FileLines(fs[p])) - 1]
               RECURSIVE Sum(_)
               Sum(F) == IF F = {} THEN 0
                         ELSE LET p == CHOOSE q \in F : TRUE
                              IN  rows[p] + Sum(F \ {p})
           IN  Sum(PartitionFiles) = Len(input) - Cardinality(Malformed(Len(input)))

\* C4: once the writer of key k has completed without error the file of k
\* holds the header line and one line per row of k, and no other row.
C4_PartitionHoldsItsRows ==
    \A k \in Keys :
        writer[k].st = "closed" =>
            LET content == fs[output_path_for_key(k)]
            IN  /\ EndsWithSeparator(content)
                /\ FileLines(content)[1] = HeaderLine
                /\ SameRows(Tail(FileLines(content)), k)

SkipsAndKeepsGoing ==
    /\ error \notin {"MalformedRecord", "FieldTooLarge"}
    /\ skipped = Malformed(next_line - 1)
    /\ \A k \in CourseIds :
          LET rows == IF k \in Keys THEN groups[k] ELSE <<>>
              mine == {i \in WellFormed(next_line - 1) : CourseIdOf(input[i]) = k}
          IN  /\ Len(rows) = Cardinality(mine)
              /\ \A i \in 1..Len(rows) : \E j \in mine : rows[i] = RowOf(input[j])
    /\ Keys \subseteq CourseIds
    /\ \A k \in Keys :
          writer[k].st = "closed" =>
              writer[k].pos = 2 + 2 * Cardinality(LinesOfKey(k, Len(input)))

C6_CollisionIsFatal ==
    (\E k1, k2 \in Keys :
        k1 # k2 /\ output_path_for_key(k1) = output_path_for_key(k2))
    => ~(phase = "done" /\ MarkerExists)

-----------------------------------------------------------------------------
(* The key functions applied directly to a pair of keys *)

KeyAlphabet == {"c", "A", "-", ":", "/"}

ProbeKeys == SeqsUpTo(KeyAlphabet, MaxKeyLen) \cup CourseIds

InitKeys ==
    /\ output_root \in OutputRoots
    /\ output_suffix \in OutputSuffixes
    /\ fail_fast = FALSE
    /\ input = <<>>
    /\ next_line = 1
    /\ groups = <<>>
    /\ skipped = {}
    /\ phase = "map"
    /\ error = "none"
    /\ writer = <<>>
    /\ fs = <<>>
    /\ \E k1, k2 \in ProbeKeys :
          probe = [NoProbe EXCEPT !.course_id = k1, !.other_id = k2]

\* safe = sanitize(course_id)
ApplySanitize ==
    /\ probe.safe = <<>>
    /\ probe' = [probe EXCEPT !.safe = <<sanitize(probe.course_id)>>]
    /\ UNCHANGED <<output_root, output_suffix, fail_fast, input, next_line,
                   groups, skipped, phase, error, writer, fs>>

\* twice = sanitize(safe)
ApplySanitizeAgain ==
    /\ probe.safe # <<>>
    /\ probe.twice = <<>>
    /\ probe' = [probe EXCEPT !.twice = <<sanitize(probe.safe[1])>>]
    /\ UNCHANGED <<output_root, output_suffix, fail_fast, input, next_line,
                   groups, skipped, phase, error, writer, fs>>

\* path = output_path_for_key(course_id), other_path = output_path_for_key(other_id)
ApplyOutputPath ==
    /\ probe.path = <<>>
    /\ probe' = [probe EXCEPT !.path = <<output_path_for_key(probe.course_id)>>,
                              !.other_path = <<output_path_for_key(probe.other_id)>>]
    /\ UNCHANGED <<output_root, output_suffix, fail_fast, input, next_line,
                   groups, skipped, phase, error, writer, fs>>

NextKeys == ApplySanitize \/ ApplySanitizeAgain \/ ApplyOutputPath

SpecKeys == InitKeys /\ [][NextKeys]_vars

\* The characters that come out as the substitute: the unsafe ones and "-".
BecomesHyphen == {"-", ":", "/"}

\* The two keys differ only where both hold a character that becomes "-".
DifferOnlyWhereSubstituted(k1, k2) ==
    /\ Len(k1) = Len(k2)
    /\ \A i \in 1..Len(k1) : k1[i] = k2[i] \/ {k1[i], k2[i]} \subseteq BecomesHyphen

C8_SanitizeIdempotent ==
    probe.twice # <<>> => probe.twice = probe.safe

\* A key that sanitize changes was sanitized twice.
C8_Witness ==
    /\ probe.twice # <<>>
    /\ probe.safe[1] # probe.course_id
    /\ \E i, j \in 1..Len(probe.course_id) :
          i # j /\ probe.course_id[i] = ":" /\ probe.course_id[j] = "/"

SuffixPart ==
    IF output_suffix = <<>> \/ output_suffix = <<<<>>>> THEN <<>>
    ELSE output_suffix[1] \o <<"-">>

\* C9: the output location of a key is
\* {output_root}/{sanitize(key)}-courseware_studentmodule-{suffix-}analytics.sql,
\* the suffix part empty for no suffix and for the empty suffix, and course:A
\* gives the name course-A.
C9_PathTemplate ==
    probe.path # <<>> =>
        /\ probe.path[1] =
               output_root \o <<"/">> \o sanitize(probe.course_id)
                   \o <<"-courseware_studentmodule-">> \o SuffixPart
                   \o <<"analytics.sql">>
        /\ (probe.course_id = <<"c", ":", "A">> /\ output_suffix = <<>>) =>
               probe.path[1] =
                   output_root \o <<"/", "c", "-", "A",
                                    "-courseware_studentmodule-", "analytics.sql">>

\* The path of c:A was computed with the empty string as suffix.
C9_Witness ==
    /\ probe.path # <<>>
    /\ probe.course_id = <<"c", ":", "A">>
    /\ output_suffix = <<<<>>>>

-----------------------------------------------------------------------------
(* One reducer invocation on its own, for any row sequence *)

\* The rows the mapper yields for the well-formed lines.
Rows == {mapper(line).out[1].value : line \in GoodLines}

InitReducer ==
    /\ output_root = <<"out">>
    /\ output_suffix \in OutputSuffixes
    /\ fail_fast = FALSE
    /\ input = <<>>
    /\ next_line = 1
    /\ \E k \in CourseIds : \E rows \in SeqsUpTo(Rows, MaxRows) :
          /\ groups = (k :> rows)
          /\ writer = (k :> [st |-> "idle", pos |-> 0, path |-> <<>>])
    /\ skipped = {}
    /\ phase = "reduce"
    /\ error = "none"
    /\ fs = <<>>
    /\ probe = NoProbe

NextReducer ==
    \/ \E k \in Keys : OpenOutput(k)
    \/ \E k \in Keys : WriteOutput(k)
    \/ \E k \in Keys : CloseOutput(k)
    \/ \E k \in Keys : FailOutput(k)

SpecReducer == InitReducer /\ [][NextReducer]_vars

\* What the file of the rows holds once complete.
FullContent(rows) ==
    HeaderLine \o <<"\n">> \o Concat([i \in 1..Len(rows) |-> rows[i] \o <<"\n">>])

\* What was written so far is the beginning of header, newline, then row,
\* newline for each row, and all of it once the file is closed.
WrittenInOrder ==
    \A k \in Keys :
        writer[k].path \in DOMAIN fs =>
            LET content == fs[writer[k].path]
            IN  /\ IsPrefix(content, FullContent(groups[k]))
                /\ writer[k].pos = 0 <=> content = <<>>
                /\ writer[k].pos >= 1 => IsPrefix(HeaderLine, content)
                /\ writer[k].st = "closed" => content = FullContent(groups[k])

NoWriteAfterClose ==
    \A k \in Keys :
        writer[k].st = "closed" =>
            /\ writer'[k] = writer[k]
            /\ fs'[writer[k].path] = fs[writer[k].path]

\* C10: a writer goes Opened, HeaderWritten, RowWritten*, Closed: one header
\* line first, also for no rows, one separator after each row, and nothing
\* is written once the file is closed.
C10_WriterProtocol == []WrittenInOrder /\ [][NoWriteAfterClose]_vars

\* A reducer invoked with no rows has closed a file that holds the header line.
C10_Witness ==
    \E k \in Keys :
        /\ groups[k] = <<>>
        /\ writer[k].st = "closed"
        /\ fs[writer[k].path] = HeaderLine \o <<"\n">>

====
